---- MODULE Spec2Model ----
(***************************************************************************)
(* Model of webappIBGE.py: the name normalisation, the extraction of the   *)
(* year of a period label, the resolution of a name into a table of        *)
(* frequencies per decade, its one-hour result cache and the render cycle  *)
(* of main.                                                                *)
(*                                                                         *)
(* Strings are sequences of characters; a character is written by an       *)
(* ASCII name:                                                             *)
(*   "a" "A"          U+0061, U+0041                                       *)
(*   "a_acute"        U+00E1, a with acute, precomposed                    *)
(*   "A_acute"        U+00C1                                               *)
(*   "comb_acute"     U+0301, combining acute accent                       *)
(*   "acute"          U+00B4, the spacing acute accent                     *)
(*   "mod_A"          U+1D2C, modifier letter capital A                    *)
(*   "sp"             U+0020                                               *)
(*   "0".."9" "["     the characters of the period labels                  *)
(***************************************************************************)
EXTENDS Integers, Sequences, FiniteSets, TLC

VARIABLES name1, name2, norm1, norm2, renorm, normPc,
          label, year, yearPc,
          response, outcome, resolvePc,
          now, cache, calls, screen

normVars == <<name1, name2, norm1, norm2, renorm, normPc>>
yearVars == <<label, year, yearPc>>
resolveVars == <<response, outcome, resolvePc>>
appVars == <<now, cache, calls, screen>>
vars == <<normVars, yearVars, resolveVars, appVars>>

\* what each specification leaves alone
notNorm == <<yearVars, resolveVars, appVars>>
notYear == <<normVars, resolveVars, appVars>>
notResolve == <<normVars, yearVars, appVars>>
notApp == <<normVars, yearVars, resolveVars>>

----------------------------------------------------------------------------
(* Bounds *)

MaxNameLen == 2
MaxLabelLen == 5
MaxRes == 3
MaxCalls == 3
MaxClock == 5400
TickSeconds == 1800

----------------------------------------------------------------------------
(* Characters and what the Unicode database says about them *)

NameChars == {"a", "A", "a_acute", "A_acute", "comb_acute", "acute", "mod_A", "sp"}

\* str.isspace of one character
IsSpace(c) == c = "sp"

\* str.lower of one character (U+1D2C has no lowercase mapping)
LowerChar(c) ==
    CASE c = "A" -> "a"
      [] c = "A_acute" -> "a_acute"
      [] OTHER -> c

\* the NFKD decomposition of one character
Decompose(c) ==
    CASE c = "a_acute" -> <<"a", "comb_acute">>
      [] c = "A_acute" -> <<"A", "comb_acute">>
      [] c = "acute" -> <<"sp", "comb_acute">>
      [] c = "mod_A" -> <<"A">>
      [] OTHER -> <<c>>

\* unicodedata.combining(c) # 0
Combining(c) == c = "comb_acute"

----------------------------------------------------------------------------
(* _normalize_name *)

RECURSIVE LStrip(_)
LStrip(s) ==
    IF s # <<>> /\ IsSpace(Head(s)) THEN LStrip(Tail(s)) ELSE s

RECURSIVE RStrip(_)
RStrip(s) ==
    IF s # <<>> /\ IsSpace(s[Len(s)]) THEN RStrip(SubSeq(s, 1, Len(s) - 1)) ELSE s

\* str.strip()
Strip(s) == RStrip(LStrip(s))

\* str.lower()
Lower(s) == [i \in 1..Len(s) |-> LowerChar(s[i])]

\* unicodedata.normalize("NFKD", s)
RECURSIVE NFKD(_)
NFKD(s) ==
    IF s = <<>> THEN <<>> ELSE Decompose(Head(s)) \o NFKD(Tail(s))

\* "".join([c for c in nfkd if not unicodedata.combining(c)])
RECURSIVE DropCombining(_)
DropCombining(s) ==
    IF s = <<>> THEN <<>>
    ELSE IF Combining(Head(s)) THEN DropCombining(Tail(s))
         ELSE <<Head(s)>> \o DropCombining(Tail(s))

_normalize_name(name) == DropCombining(NFKD(Lower(Strip(name))))

----------------------------------------------------------------------------
(* The names the normalisation is applied to, and the ways two names can   *)
(* differ in letter case or in accent marks only.                          *)

RECURSIVE StringsUpTo(_, _)
StringsUpTo(chars, n) ==
    IF n = 0 THEN {<<>>}
    ELSE LET shorter == StringsUpTo(chars, n - 1)
         IN  shorter \cup {Append(s, c) : s \in {t \in shorter : Len(t) = n - 1}, c \in chars}

Names == StringsUpTo(NameChars, MaxNameLen)

NotComputed == <<"?">>

\* the same letter in the other case
CasePartner(c) ==
    CASE c = "a" -> "A"
      [] c = "A" -> "a"
      [] c = "a_acute" -> "A_acute"
      [] c = "A_acute" -> "a_acute"
      [] OTHER -> c

IsLetter(c) == c \in {"a", "A", "a_acute", "A_acute"}

\* the letter carrying an acute accent, precomposed
Accented(c) ==
    CASE c = "a" -> "a_acute"
      [] c = "A" -> "A_acute"
      [] OTHER -> c

InsertAt(s, i, c) == SubSeq(s, 1, i) \o <<c>> \o SubSeq(s, i + 1, Len(s))

NormInit ==
    /\ name1 \in Names
    /\ name2 = name1
    /\ norm1 = NotComputed
    /\ norm2 = NotComputed
    /\ renorm = NotComputed
    /\ normPc = "input"

\* name2 changes the case of one letter
ToggleCase ==
    /\ normPc = "input"
    /\ \E i \in 1..Len(name2) :
        /\ CasePartner(name2[i]) # name2[i]
        /\ name2' = [name2 EXCEPT ![i] = CasePartner(name2[i])]
    /\ UNCHANGED <<name1, norm1, norm2, renorm, normPc, notNorm>>

\* name2 gains an acute accent: on a letter (precomposed or as a combining
\* mark after it) or as the spacing accent typed after a character
AddAccent ==
    /\ normPc = "input"
    /\ \E i \in 1..Len(name2) :
        \/ /\ Accented(name2[i]) # name2[i]
           /\ name2' = [name2 EXCEPT ![i] = Accented(name2[i])]
        \/ /\ name2[i] \in {"a", "A"}
           /\ Len(name2) <= MaxNameLen
           /\ name2' = InsertAt(name2, i, "comb_acute")
        \/ /\ IsLetter(name2[i])
           /\ Len(name2) <= MaxNameLen
           /\ name2' = InsertAt(name2, i, "acute")
    /\ UNCHANGED <<name1, norm1, norm2, renorm, normPc, notNorm>>

\* both names are normalised, and the first normalised again
Normalize ==
    /\ normPc = "input"
    /\ norm1' = _normalize_name(name1)
    /\ norm2' = _normalize_name(name2)
    /\ renorm' = _normalize_name(_normalize_name(name1))
    /\ normPc' = "done"
    /\ UNCHANGED <<name1, name2, notNorm>>

----------------------------------------------------------------------------
(* _period_to_int *)

Digits == {"0", "1", "2", "3", "4", "5", "6", "7", "8", "9"}

\* \d
IsDigit(c) == c \in Digits

DigitVal(c) ==
    CASE c = "0" -> 0 [] c = "1" -> 1 [] c = "2" -> 2 [] c = "3" -> 3
      [] c = "4" -> 4 [] c = "5" -> 5 [] c = "6" -> 6 [] c = "7" -> 7
      [] c = "8" -> 8 [] c = "9" -> 9

\* int() of a string of four digits
IntOf4(s) == DigitVal(s[1]) * 1000 + DigitVal(s[2]) * 100 + DigitVal(s[3]) * 10 + DigitVal(s[4])

\* Python's None, where a string is expected
None == <<"None">>

\* \d{4} matches at position i of s
FourDigitsAt(s, i) ==
    /\ i >= 1
    /\ i + 3 <= Len(s)
    /\ \A k \in i..(i + 3) : IsDigit(s[k])

\* re.search(r"(\d{4})", s), tried from position i on: the position of the
\* leftmost match, 0 when there is none
RECURSIVE ReSearch(_, _)
ReSearch(s, i) ==
    IF i + 3 > Len(s) THEN 0
    ELSE IF FourDigitsAt(s, i) THEN i
         ELSE ReSearch(s, i + 1)

\* \d{4} matches at position i of s and no digit stands next to the match
ExactRunAt(s, i) ==
    /\ FourDigitsAt(s, i)
    /\ (i = 1 \/ ~IsDigit(s[i - 1]))
    /\ (i + 4 > Len(s) \/ ~IsDigit(s[i + 4]))

RECURSIVE ReSearchExact(_, _)
ReSearchExact(s, i) ==
    IF i + 3 > Len(s) THEN 0
    ELSE IF ExactRunAt(s, i) THEN i
         ELSE ReSearchExact(s, i + 1)

\* the pattern (?<!\d)\d{4}(?!\d) in the place of \d{4}
period_to_int_exact_run(period) ==
    LET s == IF period = None THEN <<>> ELSE period
        m == ReSearchExact(s, 1)
    IN  IF m # 0 THEN IntOf4(SubSeq(s, m, m + 3)) ELSE 0

_period_to_int(period) ==
    LET s == IF period = None THEN <<>> ELSE period
        m == ReSearch(s, 1)
    IN  IF m # 0 THEN IntOf4(SubSeq(s, m, m + 3)) ELSE 0

LabelChars == {"1", "2", "["}

Labels == StringsUpTo(LabelChars, MaxLabelLen)

YearInit ==
    /\ label \in Labels \cup {None}
    /\ year = -1
    /\ yearPc = "input"

ExtractYear ==
    /\ yearPc = "input"
    /\ year' = _period_to_int(label)
    /\ yearPc' = "done"
    /\ UNCHANGED <<label, notYear>>

----------------------------------------------------------------------------
(* fazer_request and the body of pegar_nome_por_decada *)

\* what requests.get, raise_for_status and r.json() raise
FailureKinds == {"connection_error", "timeout", "http_error", "invalid_json"}

\* the JSON documents a successful request returns, by shape:
\*   "null"              null
\*   "empty_array"       []
\*   "empty_object"      {}
\*   "scalar"            a number or a string, such as 5
\*   "object"            an object, such as {"erro": "x"}
\*   "first_not_object"  an array whose first element is no object: [1]
\*   "no_res"            [{"nome": "X"}]
\*   "res_null"          [{"res": null}]
\*   "res"               [{"res": [...]}], the entries being in field res
PayloadKinds == {"null", "empty_array", "empty_object", "scalar", "object",
                 "first_not_object", "no_res", "res_null", "res"}

\* a key that the object does not have
AbsentKey == <<"absent">>

\* a JSON number where a string is expected
ANumber == <<"number">>

Label1930 == <<"1", "9", "3", "0", "[">>
Label2000 == <<"2", "0", "0", "0", "[">>

\* the values of "periodo" and of "frequencia" (<<>>: the key is absent)
Periodos == {Label1930, Label2000, None, AbsentKey, ANumber}
Frequencias == {<<>>, <<5>>, <<12>>}

\* the entries of a result list: objects, and one that is no object
Entries == [object : {TRUE}, periodo : Periodos, frequencia : Frequencias]
           \cup {[object |-> FALSE, periodo |-> AbsentKey, frequencia |-> <<>>]}

RECURSIVE ListsUpTo(_, _)
ListsUpTo(elems, n) ==
    IF n = 0 THEN {<<>>}
    ELSE LET shorter == ListsUpTo(elems, n - 1)
         IN  shorter \cup {Append(s, e) : s \in {t \in shorter : Len(t) = n - 1}, e \in elems}

Responses ==
    [k : FailureKinds \cup (PayloadKinds \ {"res"}), res : {<<>>}]
    \cup [k : {"res"}, res : ListsUpTo(Entries, MaxRes)]

\* fazer_request raises
RequestRaises(resp) == resp.k \in FailureKinds

\* "not payload"
Falsy(resp) == resp.k \in {"null", "empty_array", "empty_object"}

\* item.get("periodo")
GetPeriodo(item) == IF item.periodo = AbsentKey THEN None ELSE item.periodo

\* item.get("frequencia", 0)
GetFrequencia(item) == IF item.frequencia = <<>> THEN 0 ELSE item.frequencia[1]

\* the loop body raises: item.get on what is no object, re.search on a number
ItemRaises(item) == ~item.object \/ GetPeriodo(item) = ANumber

\* rows, when no item raises
Rows(res) ==
    [i \in 1..Len(res) |->
        [decade_start |-> _period_to_int(GetPeriodo(res[i])),
         frequencia |-> GetFrequencia(res[i])]]

\* the permutations of 1..n, as sequences
Perms(n) == {p \in [1..n -> 1..n] : \A i, j \in 1..n : i # j => p[i] # p[j]}

\* no sort at all: the rows stay in the order of the result list
SortValuesKeepOrder(rows) == {[i \in 1..Len(rows) |-> i]}

\* a shuffle in the place of the sort
SortValuesAnyOrder(rows) == Perms(Len(rows))

\* DataFrame.sort_values("decade_start"): kind is left at its default,
\* "quicksort", which orders the rows by the key and promises nothing about
\* the order of rows of equal keys; the index each row came from is kept
SortValues(rows) ==
    {p \in Perms(Len(rows)) :
        \A i, j \in 1..Len(rows) :
            i < j => rows[p[i]].decade_start <= rows[p[j]].decade_start}

\* str() of a non-negative integer
RECURSIVE IntToStr(_)
IntToStr(n) ==
    LET d == CHOOSE c \in Digits : DigitVal(c) = n % 10
    IN  IF n < 10 THEN <<d>> ELSE Append(IntToStr(n \div 10), d)

\* lines 71-74: the columns "Década" and "Frequência", in the sorted order p
Frame(rows, p) ==
    [i \in 1..Len(rows) |->
        [Decada |-> IntToStr(rows[p[i]].decade_start) \o <<"s">>,
         Frequencia |-> rows[p[i]].frequencia]]

NoData == [kind |-> "None", rows |-> <<>>, index |-> <<>>]
Raised == [kind |-> "exception", rows |-> <<>>, index |-> <<>>]
DataFrame(rows, p) == [kind |-> "DataFrame", rows |-> Frame(rows, p), index |-> p]

\* "except requests.ConnectionError" in the place of "except Exception"
ExceptCatchesConnectionOnly(resp) == resp.k = "connection_error"

\* "except Exception" catches what fazer_request raised
ExceptCatches(resp) == resp.k \in FailureKinds

\* the outcomes of the body of pegar_nome_por_decada when fazer_request
\* ends as resp says
pegar_nome_por_decada(resp) ==
    IF RequestRaises(resp) THEN (IF ExceptCatches(resp) THEN {NoData} ELSE {Raised})
    ELSE IF Falsy(resp) THEN {NoData}
    ELSE IF resp.k \in {"scalar", "object", "first_not_object", "res_null"} THEN {Raised}
    ELSE LET res == IF resp.k = "no_res" THEN <<>> ELSE resp.res
         IN  IF \E i \in 1..Len(res) : ItemRaises(res[i]) THEN {Raised}
             ELSE IF Rows(res) = <<>> THEN {NoData}
             ELSE {DataFrame(Rows(res), p) : p \in SortValues(Rows(res))}

NotCalled == [kind |-> "?", rows |-> <<>>, index |-> <<>>]

ResolveInit ==
    /\ response \in Responses
    /\ outcome = NotCalled
    /\ resolvePc = "input"

Resolve ==
    /\ resolvePc = "input"
    /\ outcome' \in pegar_nome_por_decada(response)
    /\ resolvePc' = "done"
    /\ UNCHANGED <<response, notResolve>>

----------------------------------------------------------------------------
(* st.cache_data(ttl=3600) around pegar_nome_por_decada, and main *)

\* ttl, in seconds
TTL == 3600

\* what the user can have typed in the text input
AppNames == {<<>>, <<"sp">>, <<"a">>, <<"A_acute">>}

Entry1930 == [object |-> TRUE, periodo |-> Label1930, frequencia |-> <<5>>]
Entry2000 == [object |-> TRUE, periodo |-> Label2000, frequencia |-> <<12>>]

\* how the request of one call can end
AppResponses ==
    {[k |-> "timeout", res |-> <<>>],
     [k |-> "empty_array", res |-> <<>>],
     [k |-> "object", res |-> <<>>],
     [k |-> "res", res |-> <<Entry1930>>],
     [k |-> "res", res |-> <<Entry2000, Entry1930>>]}

NoEntry == [value |-> NotCalled, stamp |-> -1]

\* the cache holds an entry of the key that has not expired at time t
Fresh(e, t) == e # NoEntry /\ t < e.stamp + TTL

\* a cache that does not keep None
CacheableTablesOnly(result) == result.kind = "DataFrame"

\* the cache stores what the function returns, and nothing when it raises
Cacheable(result) == result.kind # "exception"

\* a cache keyed by the normalised name
CacheKeyNormalized(nome) == _normalize_name(nome)

\* the key of the cache entry of a call: the argument of the function
CacheKey(nome) == nome

\* "if not nome"
NomeIsEmpty(nome) == nome = <<>>

\* what main shows for a result
ScreenOf(result) ==
    CASE result.kind = "None" -> "warning"
      [] result.kind = "DataFrame" -> "table"
      [] result.kind = "exception" -> "exception"

AppInit ==
    /\ now = 0
    /\ cache = [n \in AppNames |-> NoEntry]
    /\ calls = <<>>
    /\ screen = "start"

\* time passes
Tick ==
    /\ now + TickSeconds <= MaxClock
    /\ now' = now + TickSeconds
    /\ UNCHANGED <<cache, calls, screen, notApp>>

\* a render cycle with nothing typed: st.info, st.stop
RenderEmpty ==
    /\ \E nome \in AppNames :
        /\ NomeIsEmpty(nome)
        /\ screen' = "info"
    /\ UNCHANGED <<now, cache, calls, notApp>>

\* a render cycle whose call is answered by the cache
RenderCached ==
    /\ Len(calls) < MaxCalls
    /\ \E nome \in AppNames :
        /\ ~NomeIsEmpty(nome)
        /\ Fresh(cache[CacheKey(nome)], now)
        /\ LET result == cache[CacheKey(nome)].value
           IN  /\ calls' = Append(calls, [nome |-> nome, at |-> now,
                                          requested |-> FALSE, result |-> result])
               /\ screen' = ScreenOf(result)
    /\ UNCHANGED <<now, cache, notApp>>

\* a render cycle whose call runs the function: one request to
\* API_BASE + _normalize_name(nome), answered as resp says
RenderFetch ==
    /\ Len(calls) < MaxCalls
    /\ \E nome \in AppNames, resp \in AppResponses :
        /\ ~NomeIsEmpty(nome)
        /\ ~Fresh(cache[CacheKey(nome)], now)
        /\ \E result \in pegar_nome_por_decada(resp) :
            /\ calls' = Append(calls, [nome |-> nome, at |-> now,
                                       requested |-> TRUE, result |-> result])
            /\ cache' = IF Cacheable(result)
                        THEN [cache EXCEPT ![CacheKey(nome)] =
                                  [value |-> result, stamp |-> now]]
                        ELSE cache
            /\ screen' = ScreenOf(result)
    /\ UNCHANGED <<now, notApp>>

\* the path of the URL of the request of a call
UrlName(call) == _normalize_name(call.nome)

----------------------------------------------------------------------------
(* Specifications *)

NormIdle ==
    /\ name1 = <<>> /\ name2 = <<>>
    /\ norm1 = NotComputed /\ norm2 = NotComputed /\ renorm = NotComputed
    /\ normPc = "input"

YearIdle == label = None /\ year = -1 /\ yearPc = "input"

ResolveIdle ==
    /\ response = [k |-> "empty_array", res |-> <<>>]
    /\ outcome = NotCalled
    /\ resolvePc = "input"

Init == AppInit /\ NormIdle /\ YearIdle /\ ResolveIdle

Next == Tick \/ RenderEmpty \/ RenderCached \/ RenderFetch

\* the application: render cycles over the cached function
Spec == Init /\ [][Next]_vars

NormNext == ToggleCase \/ AddAccent \/ Normalize

\* the normalisation of names
InitNorm == NormInit /\ YearIdle /\ ResolveIdle /\ AppInit

SpecNorm == InitNorm /\ [][NormNext]_vars

YearNext == ExtractYear

\* the extraction of the year of a period label
InitYear == YearInit /\ NormIdle /\ ResolveIdle /\ AppInit

SpecYear == InitYear /\ [][YearNext]_vars

ResolveNext == Resolve

\* one run of the body of pegar_nome_por_decada
InitResolve == ResolveInit /\ NormIdle /\ YearIdle /\ AppInit

SpecResolve == InitResolve /\ [][ResolveNext]_vars

----------------------------------------------------------------------------
(* Properties *)

Returned(call) == call.result.kind # "exception"

\* call j falls in the hour that follows the fetch of call i
InWindow(i, j) ==
    /\ i < j
    /\ calls[i].requested
    /\ Returned(calls[i])
    /\ calls[j].at < calls[i].at + TTL

\* C1, as stated: a call made within one hour of a fetch for a raw input
\* that normalises to the same name issues no request of its own and
\* returns the identical result
C1_SharedByNormalizedName ==
    \A i, j \in 1..Len(calls) :
        InWindow(i, j) /\ UrlName(calls[i]) = UrlName(calls[j])
            => ~calls[j].requested /\ calls[j].result = calls[i].result

\* C1, amended: the cache is keyed by the raw input. A call made within one
\* hour of a fetch for the same raw input issues no request and returns the
\* identical result, and a call is answered without a request only from a
\* fetch for the same raw input: inputs that only normalise to the same
\* name do not share an entry
C1_SharedByRawName ==
    /\ \A i, j \in 1..Len(calls) :
        InWindow(i, j) /\ calls[i].nome = calls[j].nome
            => ~calls[j].requested /\ calls[j].result = calls[i].result
    /\ \A j \in 1..Len(calls) :
        ~calls[j].requested
            => \E i \in 1..Len(calls) :
                /\ InWindow(i, j)
                /\ calls[i].nome = calls[j].nome
                /\ calls[j].result = calls[i].result

C1_Witness ==
    /\ \E i, j \in 1..Len(calls) :
        /\ InWindow(i, j)
        /\ calls[i].nome = calls[j].nome
        /\ calls[i].result.kind = "DataFrame"
        /\ ~calls[j].requested
    /\ \E i, j \in 1..Len(calls) :
        /\ InWindow(i, j)
        /\ calls[i].nome # calls[j].nome
        /\ UrlName(calls[i]) = UrlName(calls[j])
        /\ calls[j].requested

\* C2: when the request fails (connection error, timeout, HTTP status,
\* undecodable body) the function returns None and raises nothing
C2_FailureYieldsNoData ==
    resolvePc = "done" /\ response.k \in FailureKinds => outcome = NoData

C2_Witness ==
    resolvePc = "done" /\ response.k = "http_error" /\ outcome = NoData

WellFormedEntry(e) == e.object /\ e.periodo # ANumber

\* the payload is empty, or is not an array whose first element holds a
\* non-empty list of objects with a string (or no) periodo
Malformed(resp) ==
    \/ resp.k # "res"
    \/ resp.res = <<>>
    \/ \E i \in 1..Len(resp.res) : ~WellFormedEntry(resp.res[i])

\* C3: for every empty or malformed payload of a successful request the
\* function returns None and raises nothing
C3_MalformedYieldsNoData ==
    resolvePc = "done" /\ ~RequestRaises(response) /\ Malformed(response)
        => outcome = NoData

YearOf(e) == _period_to_int(GetPeriodo(e))

\* C4: for every non-empty result list the table has one row per entry,
\* entries of the same decade being kept apart, each row being
\* ("{decade_start}s", frequency) of its entry, in ascending order of
\* decade_start
C4_OneRowPerEntrySorted ==
    (/\ resolvePc = "done"
     /\ response.k = "res"
     /\ response.res # <<>>
     /\ \A i \in 1..Len(response.res) : WellFormedEntry(response.res[i]))
        => LET res == response.res
           IN  /\ outcome.kind = "DataFrame"
               /\ Len(outcome.rows) = Len(res)
               /\ \E p \in Perms(Len(res)) :
                    /\ \A i \in 1..Len(res) :
                        /\ outcome.rows[i].Decada = IntToStr(YearOf(res[p[i]])) \o <<"s">>
                        /\ outcome.rows[i].Frequencia = GetFrequencia(res[p[i]])
                    /\ \A i, j \in 1..Len(res) :
                        i < j => YearOf(res[p[i]]) <= YearOf(res[p[j]])

\* a list out of order, with two entries of one decade and different counts
C4_Witness ==
    /\ resolvePc = "done"
    /\ outcome.kind = "DataFrame"
    /\ \E i, j \in 1..Len(response.res) :
        i < j /\ YearOf(response.res[i]) > YearOf(response.res[j])
    /\ \E i, j \in 1..Len(response.res) :
        /\ i # j
        /\ YearOf(response.res[i]) = YearOf(response.res[j])
        /\ GetFrequencia(response.res[i]) # GetFrequencia(response.res[j])
    /\ Len(outcome.rows) = Len(response.res)

\* C5: normalising a normalised name changes nothing
C5_Idempotent == normPc = "done" => renorm = norm1

\* C6: two names that differ in letter case or accent marks only have the
\* same normal form
C6_CaseAccentInsensitive == normPc = "done" => norm1 = norm2

LabelText == IF label = None THEN <<>> ELSE label

\* C7, as stated: the year is the value of the first run of exactly four
\* digits, a run being delimited by non-digits, and 0 when there is none
C7_ExactRun ==
    yearPc = "done" =>
        IF \E i \in 1..Len(LabelText) : ExactRunAt(LabelText, i)
        THEN \E i \in 1..Len(LabelText) :
                /\ ExactRunAt(LabelText, i)
                /\ \A j \in 1..(i - 1) : ~ExactRunAt(LabelText, j)
                /\ year = IntOf4(SubSeq(LabelText, i, i + 3))
        ELSE year = 0

\* C7, amended: the year is the value of the leftmost four consecutive
\* digits, also when more digits follow them, and 0 when the label is None,
\* empty or holds no four consecutive digits
C7_LeftmostFour ==
    yearPc = "done" =>
        IF \E i \in 1..Len(LabelText) : FourDigitsAt(LabelText, i)
        THEN \E i \in 1..Len(LabelText) :
                /\ FourDigitsAt(LabelText, i)
                /\ \A j \in 1..(i - 1) : ~FourDigitsAt(LabelText, j)
                /\ year = IntOf4(SubSeq(LabelText, i, i + 3))
        ELSE year = 0

\* a label that starts with five digits
C7_Witness ==
    /\ yearPc = "done"
    /\ label # None
    /\ Len(label) >= 5
    /\ \A k \in 1..5 : IsDigit(label[k])
    /\ year = IntOf4(SubSeq(label, 1, 4))

\* decade_start of the entry shown in row i of the table
KeyOfRow(i) == Rows(response.res)[outcome.index[i]].decade_start

\* C8, as stated: entries of the same decade_start keep the relative order
\* they have in the result list
C8_Stable ==
    resolvePc = "done" /\ outcome.kind = "DataFrame" =>
        \A i, j \in 1..Len(outcome.index) :
            i < j /\ KeyOfRow(i) = KeyOfRow(j) => outcome.index[i] < outcome.index[j]

\* C8, amended: the sort orders by decade_start alone and fixes no order
\* among equal keys: every entry gets one row, and the entries of one
\* decade_start stand next to each other, in either relative order
C8_TiesAdjacent ==
    resolvePc = "done" /\ outcome.kind = "DataFrame" =>
        /\ outcome.index \in Perms(Len(response.res))
        /\ \A i, j \in 1..Len(outcome.index) :
            i < j /\ KeyOfRow(i) = KeyOfRow(j)
                => \A k \in i..j : KeyOfRow(k) = KeyOfRow(i)

\* two entries of one decade_start shown in the reverse of their order
C8_Witness ==
    /\ resolvePc = "done"
    /\ outcome.kind = "DataFrame"
    /\ \E i, j \in 1..Len(outcome.index) :
        i < j /\ KeyOfRow(i) = KeyOfRow(j) /\ outcome.index[i] > outcome.index[j]

\* C9: a request is issued only for a name whose normal form is not empty
C9_NonEmptyEnforced ==
    \A i \in 1..Len(calls) : calls[i].requested => UrlName(calls[i]) # <<>>

\* C10: once a fetch for a raw name has returned None, every call with that
\* raw name in the hour that follows returns None without a request,
\* whatever the data source would answer, so that a later request for it
\* comes only after the hour
C10_NoDataCached ==
    \A i, j \in 1..Len(calls) :
        (/\ i < j
         /\ calls[i].requested
         /\ calls[i].result = NoData
         /\ calls[i].nome = calls[j].nome
         /\ calls[j].at < calls[i].at + TTL)
            => ~calls[j].requested /\ calls[j].result = NoData

\* None fetched, served again from the cache later in the hour, and fetched
\* anew after the hour
C10_Witness ==
    \E i, j, k \in 1..Len(calls) :
        /\ i < j /\ j < k
        /\ calls[i].nome = calls[j].nome /\ calls[j].nome = calls[k].nome
        /\ calls[i].requested /\ calls[i].result = NoData
        /\ calls[j].at > calls[i].at
        /\ ~calls[j].requested /\ calls[j].result = NoData
        /\ calls[k].at >= calls[i].at + TTL
        /\ calls[k].requested

====
